---- MODULE Spec2Model ----
(***************************************************************************)
(* A model of the commit scheduling and synchronisation engine:            *)
(*   - the configuration loader          (src/src/config.js, CONFIG)       *)
(*   - the Scheduler                     (src/src/config.js, Scheduler)    *)
(*   - the version-control gateway       (src/src/git-service.js)          *)
(*   - the commit producer / runToday    (src/src/commit-service.js)       *)
(*   - the scheduled-mode entry point    (src/src/git-service.js,          *)
(*                                        runScheduled)                    *)
(*                                                                         *)
(* The program is single-threaded JavaScript.  An async function runs      *)
(* without interruption up to an await; the model places one step at each  *)
(* call of an external primitive (file write, git add/commit/pull/push,    *)
(* timer) and lets triggers, signals and the clock interleave between      *)
(* those steps.  What follows the last await of a function (catch,         *)
(* finally, counters) runs in the step of that await's completion.         *)
(***************************************************************************)
EXTENDS Integers, Sequences, FiniteSets, TLC

(***************************************************************************)
(* Bounds of the model.                                                    *)
(***************************************************************************)
MaxTriggers == 2      \* calls of executeTask (cron ticks and runNow)
MaxExecs == 2         \* slots for executeTask activations in flight
MaxClock == 1         \* values of the wall clock
MaxRetryEnv == 2      \* largest RETRY_ATTEMPTS the environment sets
MaxDelayEnv == 0      \* largest RETRY_DELAY the environment sets
MaxCommitsEnv == 2    \* largest MAX_COMMITS_PER_DAY / BACKFILL_MAX_COMMITS set
RandDenom == 2        \* Math.random() yields k / RandDenom, 0 <= k < RandDenom
FirstBackfillDay == 5 \* earliest day of a backfill range (day 0 is a Sunday)
LastBackfillDay == 8  \* latest day of a backfill range
TicksPerDay == 2      \* instants of the clock in a calendar day
MaxPatternClock == 1  \* last instant of the clock in a run of the pattern script
MaxRandomClock == 3   \* last instant of the clock in a run of the random script
MaxRandomCommits == 2 \* commits of a run of the random script (commitsCount)
MaxRandomWeek == 1    \* largest week the random script draws (weeksRange - 1)
MaxRequests == 2      \* requests the control surface answers
MaxCalls == 3         \* calls made on a GitService
MaxOnceClock == 5     \* last instant of the clock in a run of the single execution

(***************************************************************************)
(* Defaults of the configuration loader.                                   *)
(***************************************************************************)
DefaultMinPerDay == 1
DefaultMaxPerDay == 5
DefaultRetryAttempts == 3
DefaultRetryDelay == 1000
DefaultBackfillMinCommits == 1
DefaultBackfillMaxCommits == 8

(***************************************************************************)
(* Constants of the pattern script.                                        *)
(***************************************************************************)
yearsBack == 1
commitsPerCell == 5
DefaultStartWeek == 10
DaysPerWeek == 7

VARIABLES
    CONFIG,        \* the loaded configuration (never written after load)
    proc,          \* the process: "boot", "up" or "exited"
    now,           \* the wall clock
    job,           \* Scheduler.job: "null" or "cron"
    isRunning,     \* Scheduler.isRunning (the spec's `executing`)
    lastRun,       \* Scheduler.lastRun: {} for null, {t} for a date
    stats,         \* Scheduler.stats
    initialized,   \* GitService.initialized
    execs,         \* the activations of executeTask, by slot
    markerFile,    \* content of the data file: the id of the record in it
    index,         \* content staged in the git index
    commits,       \* commit objects of the repository: the content each records
    triggers,      \* calls of executeTask so far
    startError,    \* the last call of Scheduler.start threw
    backfill,      \* the process in backfill mode (runBackfill)
    pattern,       \* a run of the pattern script
    randomRun,     \* a run of the random-commits script
    once,          \* the process in single-execution mode (runOnce)
    repository,    \* a repository over successive calls of initialize
    http           \* the control surface: requests answered, method and status of the last

vars == <<CONFIG, proc, now, job, isRunning, lastRun, stats, initialized,
          execs, markerFile, index, commits, triggers, startError,
          backfill, pattern, randomRun, once, repository, http>>

(***************************************************************************)
(* Configuration loader.  An environment variable is {} when unset or not  *)
(* a number (parseInt gives NaN) and {n} when it parses to n.              *)
(***************************************************************************)
EnvInts(lo, hi) == {{}} \cup {{n} : n \in lo..hi}
EnvSet(lo, hi) == {{n} : n \in lo..hi}

\* parseInt(process.env.X) || dflt : NaN and 0 are falsy
ParseIntOr(env, dflt) ==
    IF env = {} THEN dflt
    ELSE LET n == CHOOSE x \in env : TRUE
         IN  IF n = 0 THEN dflt ELSE n

LoadConfig(envDry, envRetry, envDelay, envMin, envMax) ==
    [ dryRun        |-> envDry,
      retryAttempts |-> ParseIntOr(envRetry, DefaultRetryAttempts),
      retryDelay    |-> ParseIntOr(envDelay, DefaultRetryDelay),
      minPerDay     |-> ParseIntOr(envMin, DefaultMinPerDay),
      maxPerDay     |-> ParseIntOr(envMax, DefaultMaxPerDay) ]

(***************************************************************************)
(* Error messages of the git primitives.  A message is the set of the      *)
(* phrases it contains; error.message.includes(p) is p \in message.        *)
(***************************************************************************)
\* what git pull fails with
PullErrors ==
    { {"does not appear to be a git repository", "Could not read from remote"},
      {"Could not read from remote"},
      {"repository not found"},
      {"no tracking information"},
      {"couldn't find remote ref"},
      {"You have unstaged changes", "unstaged changes"},
      {"Authentication failed"} }

\* what git push fails with
PushErrors ==
    { {"does not appear to be a git repository", "Could not read from remote"},
      {"Could not read from remote"},
      {"repository not found"},
      {"Authentication failed"},
      {"rejected"} }

NoError == {}

Includes(message, phrase) == phrase \in message

(***************************************************************************)
(* Version-control gateway: classification of failures and retry policy.   *)
(***************************************************************************)
\* a classification that misses the unreachable remote
RemoteAbsentUnlessUnreachable(message) ==
    \/ Includes(message, "does not appear to be a git repository")
    \/ Includes(message, "repository not found")

\* push: the failures that mean the remote is absent
IsRemoteAbsent(message) ==
    \/ Includes(message, "does not appear to be a git repository")
    \/ Includes(message, "repository not found")
    \/ Includes(message, "Could not read from remote")

\* a classification that misses the branch without upstream
RecoverableUnlessUntracked(message) ==
    \/ Includes(message, "couldn't find remote ref")
    \/ Includes(message, "does not appear to be a git repository")
    \/ Includes(message, "repository not found")
    \/ Includes(message, "unstaged changes")
    \/ Includes(message, "You have unstaged changes")

\* pull: the failures that are ignored
IsRecoverablePull(message) ==
    \/ Includes(message, "no tracking information")
    \/ Includes(message, "couldn't find remote ref")
    \/ Includes(message, "does not appear to be a git repository")
    \/ Includes(message, "repository not found")
    \/ Includes(message, "unstaged changes")
    \/ Includes(message, "You have unstaged changes")

\* push: the loop condition, attempt <= maxRetries
LoopContinues(attempt, maxRetries) == attempt <= maxRetries

\* a test that ends the retries one attempt early
IsLastAttemptOffByOne(attempt, maxRetries) == attempt = maxRetries - 1

\* push: the test that ends the retries, attempt === maxRetries
IsLastAttempt(attempt, maxRetries) == attempt = maxRetries

\* a backoff that does not grow
ConstantBackoff(retryDelay, attempt) == retryDelay

\* push: the argument of sleep before the next attempt
Backoff(retryDelay, attempt) == retryDelay * attempt

(***************************************************************************)
(* Commit producer / runToday.                                             *)
(***************************************************************************)
\* a draw over one value too many
RandomCountOpen(min, max, k) == ((k * (max - min + 2)) \div RandDenom) + min

\* Math.floor(Math.random() * (max - min + 1)) + min with Math.random() = k/RandDenom
RandomCount(min, max, k) == ((k * (max - min + 1)) \div RandDenom) + min

getRandomCommitCount(k) == RandomCount(CONFIG.minPerDay, CONFIG.maxPerDay, k)

(***************************************************************************)
(* Scheduler.                                                              *)
(***************************************************************************)
\* an executeTask without its guard
AdmittedAlways(running) == TRUE

\* executeTask: the test that lets a trigger in, !this.isRunning
Admitted(running) == ~running

\* an executeTask without its finally block
NotReleased(running) == running

\* executeTask: the value the finally block leaves in isRunning
Released(running) == FALSE

ExecIds == 1..MaxExecs

\* an activation of executeTask and of the calls it makes
IdleExec ==
    [ pc          |-> "idle",     \* idle, pull, write, add, commit, push, sleep, done
      run         |-> 0,          \* the number of this activation (totalRuns)
      today       |-> 0,          \* runToday: the moment it was invoked
      commitCount |-> 0,          \* runToday: the count drawn
      i           |-> 0,          \* runToday: the loop index
      data        |-> <<0, 0>>,   \* createCommit: the id of the record built
                                  \* (crypto.randomUUID: fresh; here <<run, i + 1>>)
      results     |-> <<>>,       \* runToday: the results collected
      caught      |-> 0,          \* runToday: the errors its catch block logged
      pullResult  |-> "none",     \* none, empty ({}), result
      pulled      |-> 0,          \* pull: calls of git.pull made
      attempt     |-> 0,          \* push: the loop variable
      pushLog     |-> <<>>,       \* push: the error each call of git.push ended
                                  \* with (NoError for a success), in order
      waits       |-> <<>>,       \* push: the sleeps requested, in order
      pushResult  |-> "none",     \* none, pushed ({pushed:true}), result,
                                  \* local ({pushed:false, local:true}), undefined
      steps       |-> <<>>,       \* pipeline steps run: pull, createCommit, push
      lastCall    |-> [op |-> "none", outcome |-> NoError],
                                  \* the last primitive called before push (pull,
                                  \* write, add, commit) and the error it ended with
      error       |-> NoError,    \* the error surfaced to executeTask
      outcome     |-> "none" ]    \* none, success, failure

scriptVars == <<backfill, pattern, randomRun, once, repository>>

\* the scripts and the backfill mode are other processes: not running here
Off == [pc |-> "off"]

ScriptsIdle ==
    /\ backfill = Off
    /\ pattern = Off
    /\ randomRun = Off
    /\ once = Off
    /\ repository = Off

InFlight(e) == execs[e].pc \notin {"idle", "done"}

FreeSlots == {e \in ExecIds : ~InFlight(e)}

Configs ==
    { LoadConfig(d, r, w, lo, hi) :
        d \in BOOLEAN,
        r \in EnvInts(-1, MaxRetryEnv),
        w \in EnvInts(1, MaxDelayEnv),
        lo \in EnvInts(1, MaxCommitsEnv - 1),
        hi \in EnvSet(1, MaxCommitsEnv) }

\* the engine before main has run, with one of the given configurations
EngineInit(configs) ==
    /\ CONFIG \in configs
    /\ proc = "boot"
    /\ now = 0
    /\ job = "null"
    /\ isRunning = FALSE
    /\ lastRun = {}
    /\ stats = [totalRuns |-> 0, successfulRuns |-> 0, failedRuns |-> 0]
    /\ initialized = FALSE
    /\ execs = [e \in ExecIds |-> IdleExec]
    /\ markerFile = <<0, 0>>
    /\ index = <<0, 0>>
    /\ commits = <<>>
    /\ triggers = 0
    /\ startError = FALSE
    /\ http = [requests |-> 0, method |-> "none", status |-> 0]

Init == EngineInit(Configs) /\ ScriptsIdle

engineVars == <<CONFIG, proc, now, job, isRunning, lastRun, stats, initialized,
                execs, markerFile, index, commits, triggers, startError, http>>

schedVars == <<job, isRunning, lastRun, stats>>
repoVars == <<markerFile, index, commits>>

(***************************************************************************)
(* The process: scheduled mode, the clock, the shutdown signal.            *)
(***************************************************************************)
\* a start that registers the job whatever cron.validate says
RegisteredAnyway(cronValid) == "cron"

\* the job that start leaves registered: none when cron.validate fails
\* (start throws before cron.schedule)
Registered(cronValid) == IF cronValid THEN "cron" ELSE "null"

\* runScheduled: await gitService.initialize(), then scheduler.start();
\* an error of either ends the process (main: process.exit(1))
RunScheduled(initOk, cronValid) ==
    /\ proc = "boot"
    /\ initialized' = initOk
    /\ job' = IF initOk THEN Registered(cronValid) ELSE "null"
    /\ startError' = (initOk /\ ~cronValid)
    /\ proc' = IF initOk /\ cronValid THEN "up" ELSE "exited"
    /\ UNCHANGED <<http, scriptVars>>
    /\ UNCHANGED <<CONFIG, now, isRunning, lastRun, stats, execs, triggers>>
    /\ UNCHANGED repoVars

\* time passes
Tick ==
    /\ proc = "up"
    /\ now < MaxClock
    /\ now' = now + 1
    /\ UNCHANGED <<startError, http, scriptVars>>
    /\ UNCHANGED <<CONFIG, proc, initialized, execs, triggers>>
    /\ UNCHANGED schedVars
    /\ UNCHANGED repoVars

\* Scheduler.start, which reads the cron expression at each call and finds it
\* valid or not; with a job registered it warns and returns
Start(cronValid) ==
    /\ proc = "up"
    /\ job = "null"
    /\ job' = Registered(cronValid)
    /\ startError' = ~cronValid
    /\ UNCHANGED <<http, scriptVars>>
    /\ UNCHANGED <<CONFIG, proc, now, isRunning, lastRun, stats, initialized,
                   execs, triggers>>
    /\ UNCHANGED repoVars

\* a stop that also cancels the execution in flight
StopCancels ==
    /\ proc = "up"
    /\ job # "null"
    /\ job' = "null"
    /\ isRunning' = FALSE
    /\ execs' = [e \in ExecIds |->
                    IF InFlight(e) THEN [execs[e] EXCEPT !.pc = "done"] ELSE execs[e]]
    /\ UNCHANGED <<startError, http, scriptVars>>
    /\ UNCHANGED <<CONFIG, proc, now, lastRun, stats, initialized, triggers>>
    /\ UNCHANGED repoVars

\* Scheduler.getStatus: the snapshot the control surface reads
getStatus ==
    [ running     |-> job # "null",
      isExecuting |-> isRunning,
      lastRun     |-> lastRun,
      stats       |-> stats ]

\* Scheduler.stop
Stop ==
    /\ proc = "up"
    /\ job # "null"
    /\ job' = "null"
    /\ UNCHANGED <<startError, http, scriptVars>>
    /\ UNCHANGED <<CONFIG, proc, now, isRunning, lastRun, stats, initialized,
                   execs, triggers>>
    /\ UNCHANGED repoVars

\* SIGTERM / SIGINT: shutdown calls scheduler.stop() and process.exit(0)
Shutdown ==
    /\ proc = "up"
    /\ job' = "null"
    /\ proc' = "exited"
    /\ UNCHANGED <<startError, http, scriptVars>>
    /\ UNCHANGED <<CONFIG, now, isRunning, lastRun, stats, initialized,
                   execs, triggers>>
    /\ UNCHANGED repoVars


(***************************************************************************)
(* Scheduler.executeTask: admission.                                       *)
(***************************************************************************)
\* the part of executeTask up to its first await: a trigger that finds
\* isRunning set returns, another sets the flag, lastRun and totalRuns and
\* calls gitService.pull()
ExecuteTask ==
    /\ triggers < MaxTriggers
    /\ triggers' = triggers + 1
    /\ Admitted(isRunning) => FreeSlots # {}
    /\ IF Admitted(isRunning)
       THEN LET e == CHOOSE f \in FreeSlots : \A g \in FreeSlots : f <= g
            IN  /\ isRunning' = TRUE
                /\ lastRun' = {now}
                /\ stats' = [stats EXCEPT !.totalRuns = @ + 1]
                /\ execs' = [execs EXCEPT ![e] =
                        [IdleExec EXCEPT !.pc = "pull", !.run = stats.totalRuns + 1]]
       ELSE UNCHANGED <<isRunning, lastRun, stats, execs>>
    /\ UNCHANGED <<startError, scriptVars>>
    /\ UNCHANGED <<CONFIG, proc, now, job, initialized>>
    /\ UNCHANGED repoVars

\* the callback of cron.schedule: fires while the job is registered
CronTick ==
    /\ proc = "up"
    /\ job = "cron"
    /\ ExecuteTask
    /\ UNCHANGED http

\* Scheduler.runNow: the manual trigger
RunNow ==
    /\ proc = "up"
    /\ ExecuteTask
    /\ UNCHANGED http

\* an executeTask that counts nothing
RecordNothing(st, succeeded) == st

\* an executeTask that counts a failed run as a successful one too
RecordBoth(st, succeeded) ==
    IF succeeded
    THEN [st EXCEPT !.successfulRuns = @ + 1]
    ELSE [st EXCEPT !.failedRuns = @ + 1, !.successfulRuns = @ + 1]

\* executeTask: successfulRuns++ at the end of the try block, failedRuns++
\* in the catch block
RecordOutcome(st, succeeded) ==
    IF succeeded
    THEN [st EXCEPT !.successfulRuns = @ + 1]
    ELSE [st EXCEPT !.failedRuns = @ + 1]

\* executeTask after its try block: the counter of the outcome, and finally
Finish(e, rec, succeeded) ==
    /\ execs' = [execs EXCEPT ![e] =
                    [rec EXCEPT !.pc = "done",
                                !.outcome = IF succeeded THEN "success" ELSE "failure"]]
    /\ stats' = RecordOutcome(stats, succeeded)
    /\ isRunning' = Released(isRunning)

(***************************************************************************)
(* CommitService.createTodayContributions and createCommit.                *)
(***************************************************************************)
Call(op, outcome) == [op |-> op, outcome |-> outcome]

\* the error of a file write, git add or git commit that fails
Failed(ok) == IF ok THEN NoError ELSE {"failed"}

\* a runToday that starts the push without waiting for its commits
BeginPushAtOnce(rec) == [rec EXCEPT !.pc = "push", !.attempt = 1]

\* createCommit up to its first await (the record is built), or, when the
\* loop of runToday is over, the call of gitService.push()
BeginCommitOrPush(rec) ==
    IF rec.i < rec.commitCount
    THEN [rec EXCEPT !.pc = "write",
                     !.data = <<rec.run, rec.i + 1>>,
                     !.steps = Append(@, "createCommit")]
    ELSE [rec EXCEPT !.pc = "push", !.attempt = 1]

\* the loop of runToday moves on, after a result or after a caught error
NextCommit(rec) == BeginCommitOrPush([rec EXCEPT !.i = @ + 1])

\* a runToday that lets the error of a creation through to executeTask
RaiseCommitError(rec) ==
    [rec EXCEPT !.pc = "done", !.outcome = "failure", !.error = {"failed"}]

\* a runToday that gives up its batch at the first failed creation
AbortBatch(rec) == [rec EXCEPT !.caught = @ + 1, !.pc = "push", !.attempt = 1]

\* the catch block in the loop of runToday: the error is logged, the loop
\* goes on
CatchCommitError(rec) == NextCommit([rec EXCEPT !.caught = @ + 1])

\* GitService.pull, and on its return the start of createTodayContributions
Pull(e, outcome, k) ==
    LET rec == [execs[e] EXCEPT !.steps = Append(@, "pull")]
        called == [rec EXCEPT !.pulled = @ + 1, !.lastCall = Call("pull", outcome)]
        got(r, res) == [r EXCEPT !.pullResult = res,
                                 !.today = now,
                                 !.commitCount = getRandomCommitCount(k)]
    IN
    /\ proc = "up"
    /\ initialized
    /\ execs[e].pc = "pull"
    /\ IF CONFIG.dryRun
       THEN /\ execs' = [execs EXCEPT ![e] = BeginCommitOrPush(got(rec, "empty"))]
            /\ UNCHANGED <<isRunning, stats>>
       ELSE IF outcome = NoError
       THEN /\ execs' = [execs EXCEPT ![e] = BeginCommitOrPush(got(called, "result"))]
            /\ UNCHANGED <<isRunning, stats>>
       ELSE IF IsRecoverablePull(outcome)
       THEN /\ execs' = [execs EXCEPT ![e] = BeginCommitOrPush(got(called, "empty"))]
            /\ UNCHANGED <<isRunning, stats>>
       ELSE Finish(e, [called EXCEPT !.error = outcome], FALSE)
    /\ UNCHANGED <<startError, http, scriptVars>>
    /\ UNCHANGED <<CONFIG, proc, now, job, lastRun, initialized, triggers>>
    /\ UNCHANGED repoVars

\* createCommit: await this.writeDataFile(data)
WriteDataFile(e, ok) ==
    LET rec == [execs[e] EXCEPT !.lastCall = Call("write", Failed(ok))]
    IN
    /\ proc = "up"
    /\ execs[e].pc = "write"
    /\ IF ok
       THEN /\ markerFile' = rec.data
            /\ execs' = [execs EXCEPT ![e] = [rec EXCEPT !.pc = "add"]]
       ELSE /\ execs' = [execs EXCEPT ![e] = CatchCommitError(rec)]
            /\ UNCHANGED markerFile
    /\ UNCHANGED <<startError, http, scriptVars>>
    /\ UNCHANGED <<CONFIG, proc, now, initialized, triggers, index, commits>>
    /\ UNCHANGED schedVars

\* createCommit: await gitService.add([this.dataFile])
GitAdd(e, ok) ==
    LET rec == [execs[e] EXCEPT !.lastCall = Call("add", Failed(ok))]
    IN
    /\ proc = "up"
    /\ initialized
    /\ execs[e].pc = "add"
    /\ IF ok
       THEN /\ index' = markerFile
            /\ execs' = [execs EXCEPT ![e] = [rec EXCEPT !.pc = "commit"]]
       ELSE /\ execs' = [execs EXCEPT ![e] = CatchCommitError(rec)]
            /\ UNCHANGED index
    /\ UNCHANGED <<startError, http, scriptVars>>
    /\ UNCHANGED <<CONFIG, proc, now, initialized, triggers, markerFile, commits>>
    /\ UNCHANGED schedVars

\* createCommit: await gitService.commit(message, {date}); then the result is
\* collected and, after sleep(100), the loop of runToday moves on
GitCommit(e, ok) ==
    LET rec == execs[e]
        called == [rec EXCEPT !.lastCall = Call("commit", Failed(ok))]
        collected(r, res) == NextCommit([r EXCEPT !.results = Append(@, res)])
    IN
    /\ proc = "up"
    /\ initialized
    /\ rec.pc = "commit"
    /\ IF CONFIG.dryRun
       THEN /\ execs' = [execs EXCEPT ![e] = collected(rec, "dry-run")]
            /\ UNCHANGED commits
       ELSE IF ok
       THEN /\ commits' = Append(commits, index)
            /\ execs' = [execs EXCEPT ![e] = collected(called, "created")]
       ELSE /\ execs' = [execs EXCEPT ![e] = CatchCommitError(called)]
            /\ UNCHANGED commits
    /\ UNCHANGED <<startError, http, scriptVars>>
    /\ UNCHANGED <<CONFIG, proc, now, initialized, triggers, markerFile, index>>
    /\ UNCHANGED schedVars

(***************************************************************************)
(* GitService.push.                                                        *)
(***************************************************************************)
\* one pass of the retry loop of push, or its end when the loop condition
\* fails; what push returns or throws reaches executeTask in the same step
PushAttempt(e, outcome) ==
    LET rec == execs[e]
        maxRetries == CONFIG.retryAttempts
        ran == [rec EXCEPT !.steps = Append(@, "push")]
        called == [ran EXCEPT !.pushLog = Append(@, outcome)]
    IN
    /\ proc = "up"
    /\ initialized
    /\ rec.pc = "push"
    /\ IF ~LoopContinues(rec.attempt, maxRetries)
       THEN Finish(e, [rec EXCEPT !.pushResult = "undefined"], TRUE)
       ELSE IF CONFIG.dryRun
       THEN Finish(e, [ran EXCEPT !.pushResult = "pushed"], TRUE)
       ELSE IF outcome = NoError
       THEN Finish(e, [called EXCEPT !.pushResult = "result"], TRUE)
       ELSE IF IsRemoteAbsent(outcome)
       THEN Finish(e, [called EXCEPT !.pushResult = "local"], TRUE)
       ELSE IF IsLastAttempt(rec.attempt, maxRetries)
       THEN Finish(e, [called EXCEPT !.error = outcome], FALSE)
       ELSE /\ execs' = [execs EXCEPT ![e] =
                    [called EXCEPT
                        !.pc = "sleep",
                        !.waits = Append(@, Backoff(CONFIG.retryDelay, rec.attempt))]]
            /\ UNCHANGED <<isRunning, stats>>
    /\ UNCHANGED <<startError, http, scriptVars>>
    /\ UNCHANGED <<CONFIG, proc, now, job, lastRun, initialized, triggers>>
    /\ UNCHANGED repoVars

\* the timer of sleep fires: attempt++ and the loop goes round
PushWake(e) ==
    /\ proc = "up"
    /\ execs[e].pc = "sleep"
    /\ execs' = [execs EXCEPT ![e].pc = "push", ![e].attempt = @ + 1]
    /\ UNCHANGED <<startError, http, scriptVars>>
    /\ UNCHANGED <<CONFIG, proc, now, initialized, triggers>>
    /\ UNCHANGED schedVars
    /\ UNCHANGED repoVars

(***************************************************************************)
(* The specification.                                                      *)
(***************************************************************************)
Step(e) ==
    \/ \E outcome \in {NoError} \cup PullErrors, k \in 0..(RandDenom - 1) :
            Pull(e, outcome, k)
    \/ \E ok \in BOOLEAN : WriteDataFile(e, ok)
    \/ \E ok \in BOOLEAN : GitAdd(e, ok)
    \/ \E ok \in BOOLEAN : GitCommit(e, ok)
    \/ \E outcome \in {NoError} \cup PushErrors : PushAttempt(e, outcome)
    \/ PushWake(e)

Next ==
    \/ \E initOk \in BOOLEAN, cronValid \in BOOLEAN : RunScheduled(initOk, cronValid)
    \/ Tick
    \/ \E cronValid \in BOOLEAN : Start(cronValid)
    \/ Stop
    \/ Shutdown
    \/ CronTick
    \/ RunNow
    \/ \E e \in ExecIds : Step(e)

Spec == Init /\ [][Next]_vars

\* every primitive returns and every timer fires while the process is up
LiveSpec == Spec /\ \A e \in ExecIds : WF_vars(Step(e))


(***************************************************************************)
(* Backfill mode: runBackfill and CommitService.backfillContributions.     *)
(* A day is an integer, day 0 a Sunday; a date of the environment is {}    *)
(* when the variable is empty and {d} otherwise.                           *)
(***************************************************************************)
\* moment#day(): 0 for Sunday .. 6 for Saturday
DayOfWeek(d) == d % 7

\* a test that knows Saturday only
IsWeekendSaturdayOnly(dayOfWeek) == dayOfWeek = 6

\* backfillContributions: dayOfWeek === 0 || dayOfWeek === 6
IsWeekend(dayOfWeek) == dayOfWeek = 0 \/ dayOfWeek = 6

\* a loop that stops before the end date
RangeContinuesExclusive(current, end) == current < end

\* backfillContributions: the loop condition, current.isSameOrBefore(end)
RangeContinues(current, end) == current <= end

\* a failure counted as a commit as well
CommitFailedAlsoCounted(st) == [st EXCEPT !.errors = @ + 1, !.totalCommits = @ + 1]

\* backfillContributions: stats.totalCommits++ after createCommit
CommitCreated(st) == [st EXCEPT !.totalCommits = @ + 1]

\* backfillContributions: stats.errors++ in the catch block
CommitFailed(st) == [st EXCEPT !.errors = @ + 1]

TheDate(env) == CHOOSE d \in env : TRUE

\* CONFIG.backfill as the loader builds it
LoadBackfill(envStart, envEnd, envSkip, envMin, envMax) ==
    [ startDate    |-> envStart,
      endDate      |-> envEnd,
      skipWeekends |-> envSkip,
      minCommits   |-> ParseIntOr(envMin, DefaultBackfillMinCommits),
      maxCommits   |-> ParseIntOr(envMax, DefaultBackfillMaxCommits) ]

BackfillConfigs ==
    { LoadBackfill(s, e, w, lo, hi) :
        s \in EnvInts(FirstBackfillDay, LastBackfillDay),
        e \in EnvInts(FirstBackfillDay, LastBackfillDay),
        w \in BOOLEAN,
        lo \in EnvInts(1, MaxCommitsEnv),
        hi \in EnvSet(1, MaxCommitsEnv) }

\* the process in backfill mode before runBackfill
BackfillBoot(cfg) ==
    [ pc          |-> "boot",    \* boot, day, commit, push, exit0, exit1
      config      |-> cfg,       \* CONFIG.backfill
      current     |-> 0,         \* backfillContributions: the day of the loop
      commitCount |-> 0,         \* the count drawn for the day
      i           |-> 0,         \* the index of the inner loop
      stats       |-> [totalDays |-> 0, totalCommits |-> 0,
                       skippedDays |-> 0, errors |-> 0],
      visited     |-> <<>>,      \* the days the loop went through, in order
      drawn       |-> 0,         \* the sum of the counts drawn
      commitDays  |-> {},        \* the days commits were created for
      returned    |-> FALSE ]    \* backfillContributions has returned its stats

BackfillInit ==
    /\ EngineInit({LoadConfig(FALSE, {}, {}, {}, {})})
    /\ backfill \in {BackfillBoot(cfg) : cfg \in BackfillConfigs}
    /\ pattern = Off
    /\ randomRun = Off
    /\ once = Off
    /\ repository = Off

\* the outer loop of backfillContributions from its condition up to the
\* first createCommit of a day, or to its return
BackfillLoop(b, k) ==
    IF ~RangeContinues(b.current, TheDate(b.config.endDate))
    THEN [b EXCEPT !.pc = "push", !.returned = TRUE]
    ELSE IF b.config.skipWeekends /\ IsWeekend(DayOfWeek(b.current))
    THEN [b EXCEPT !.pc = "day",
                   !.stats.skippedDays = @ + 1,
                   !.visited = Append(@, b.current),
                   !.current = @ + 1]
    ELSE LET n == RandomCount(b.config.minCommits, b.config.maxCommits, k)
             d == [b EXCEPT !.visited = Append(@, b.current),
                            !.commitCount = n,
                            !.drawn = @ + n,
                            !.i = 0]
         IN  IF 0 < n
             THEN [d EXCEPT !.pc = "commit"]
             ELSE [d EXCEPT !.pc = "day",
                            !.stats.totalDays = @ + 1,
                            !.current = @ + 1]

\* runBackfill: the dates are required, then gitService.initialize(), then
\* backfillContributions up to its loop
RunBackfill(initOk) ==
    /\ backfill.pc = "boot"
    /\ backfill' =
         IF backfill.config.startDate = {} \/ backfill.config.endDate = {} \/ ~initOk
         THEN [backfill EXCEPT !.pc = "exit1"]
         ELSE [backfill EXCEPT !.pc = "day",
                               !.current = TheDate(backfill.config.startDate)]
    /\ UNCHANGED <<engineVars, once, repository, pattern, randomRun>>

\* backfillContributions: a turn of the outer loop
BackfillDay(k) ==
    /\ backfill.pc = "day"
    /\ backfill' = BackfillLoop(backfill, k)
    /\ UNCHANGED <<engineVars, once, repository, pattern, randomRun>>

\* backfillContributions: a createCommit of the inner loop, dated at an hour
\* of 9..20 of the current day, and what follows it up to the next one
BackfillCommit(ok) ==
    LET counted == IF ok
                   THEN [backfill EXCEPT !.stats = CommitCreated(@),
                                         !.commitDays = @ \cup {backfill.current}]
                   ELSE [backfill EXCEPT !.stats = CommitFailed(@)]
        b == [counted EXCEPT !.i = @ + 1]
    IN
    /\ backfill.pc = "commit"
    /\ backfill' =
         IF b.i < b.commitCount
         THEN b
         ELSE [b EXCEPT !.pc = "day",
                        !.stats.totalDays = @ + 1,
                        !.current = @ + 1]
    /\ UNCHANGED <<engineVars, once, repository, pattern, randomRun>>

\* runBackfill: gitService.push() returns or throws; main exits with 0 or 1
BackfillPush(pushed) ==
    /\ backfill.pc = "push"
    /\ backfill' = [backfill EXCEPT !.pc = IF pushed THEN "exit0" ELSE "exit1"]
    /\ UNCHANGED <<engineVars, once, repository, pattern, randomRun>>

BackfillNext ==
    \/ \E initOk \in BOOLEAN : RunBackfill(initOk)
    \/ \E k \in 0..(RandDenom - 1) : BackfillDay(k)
    \/ \E ok \in BOOLEAN : BackfillCommit(ok)
    \/ \E pushed \in BOOLEAN : BackfillPush(pushed)

BackfillSpec == BackfillInit /\ [][BackfillNext]_vars


(***************************************************************************)
(* The pattern script (src/unnamed/part_002): PATTERNS, generateDate,      *)
(* drawPattern, pushCommits, main.                                         *)
(* An instant of the clock is a number t: its calendar day is              *)
(* t \div TicksPerDay and its time of day t % TicksPerDay.                 *)
(***************************************************************************)
\* 7 rows (days, row 1 is Sunday) of W columns (weeks); 1 is filled
PATTERNS ==
    [ heart |->
        << <<0, 1, 1, 0, 0, 1, 1, 0>>,
           <<1, 1, 1, 1, 1, 1, 1, 1>>,
           <<1, 1, 1, 1, 1, 1, 1, 1>>,
           <<1, 1, 1, 1, 1, 1, 1, 1>>,
           <<0, 1, 1, 1, 1, 1, 1, 0>>,
           <<0, 0, 1, 1, 1, 1, 0, 0>>,
           <<0, 0, 0, 1, 1, 0, 0, 0>> >>,
      hi |->
        << <<1, 0, 1, 0, 1, 1, 1>>,
           <<1, 0, 1, 0, 0, 1, 0>>,
           <<1, 1, 1, 0, 0, 1, 0>>,
           <<1, 0, 1, 0, 0, 1, 0>>,
           <<1, 0, 1, 0, 0, 1, 0>>,
           <<1, 0, 1, 0, 0, 1, 0>>,
           <<1, 0, 1, 0, 1, 1, 1>> >>,
      smiley |->
        << <<0, 0, 1, 1, 1, 1, 0, 0>>,
           <<0, 1, 0, 0, 0, 0, 1, 0>>,
           <<1, 0, 1, 0, 0, 1, 0, 1>>,
           <<1, 0, 0, 0, 0, 0, 0, 1>>,
           <<1, 0, 1, 0, 0, 1, 0, 1>>,
           <<0, 1, 0, 1, 1, 0, 1, 0>>,
           <<0, 0, 1, 1, 1, 1, 0, 0>> >>,
      checkerboard |->
        << <<1, 0, 1, 0, 1, 0, 1, 0>>,
           <<0, 1, 0, 1, 0, 1, 0, 1>>,
           <<1, 0, 1, 0, 1, 0, 1, 0>>,
           <<0, 1, 0, 1, 0, 1, 0, 1>>,
           <<1, 0, 1, 0, 1, 0, 1, 0>>,
           <<0, 1, 0, 1, 0, 1, 0, 1>>,
           <<1, 0, 1, 0, 1, 0, 1, 0>> >>,
      wave |->
        << <<0, 0, 0, 1, 0, 0, 0, 1>>,
           <<0, 0, 1, 0, 0, 0, 1, 0>>,
           <<0, 1, 0, 0, 0, 1, 0, 0>>,
           <<1, 0, 0, 0, 1, 0, 0, 0>>,
           <<0, 1, 0, 0, 0, 1, 0, 0>>,
           <<0, 0, 1, 0, 0, 0, 1, 0>>,
           <<0, 0, 0, 1, 0, 0, 0, 1>> >> ]

PatternNames == DOMAIN PATTERNS

\* moment(): the calendar day and the time of day of an instant
Moment(t) == [years |-> 0, day |-> t \div TicksPerDay, tod |-> t % TicksPerDay]

\* moment#format(): the ISO string, which carries the date and the time of day
Format(m) == <<m.years, m.day, m.tod>>

\* generateDate called at instant t:
\* moment().subtract(yearsBack, "y").add(1, "d").add(weeksBack, "w")
\*         .add(dayOfWeek, "d").format()
generateDate(weeksBack, dayOfWeek, t) ==
    LET m == Moment(t)
    IN  Format([m EXCEPT !.years = @ - yearsBack,
                         !.day = @ + 1 + DaysPerWeek * weeksBack + dayOfWeek])

\* the loops of drawPattern go through the cells by week, and by day within
\* the week: cell number p is day p % 7 of week p \div 7
WeekOf(p) == p \div DaysPerWeek
DayOf(p) == p % DaysPerWeek

\* pattern[0].length
Weeks(grid) == Len(grid[1])

\* pattern[day] && pattern[day][week] === 1
CellOn(grid, day, week) == grid[day + 1][week + 1] = 1

NoCell == -1

\* the first filled cell from cell p on, in the order of the loops
RECURSIVE FirstOnCellFrom(_, _)
FirstOnCellFrom(grid, p) ==
    IF p >= DaysPerWeek * Weeks(grid) THEN NoCell
    ELSE IF CellOn(grid, DayOf(p), WeekOf(p)) THEN p
    ELSE FirstOnCellFrom(grid, p + 1)

\* an intensity loop that goes round once more
RunContinuesOnceMore(i) == i <= commitsPerCell

\* drawPattern: the condition of the intensity loop, i < CONFIG.commitsPerCell
RunContinues(i) == i < commitsPerCell

\* process.argv[2] || "heart", parseInt(process.argv[3]) || 10
ArgOr(arg, dflt) == IF arg = {} THEN dflt ELSE CHOOSE x \in arg : TRUE

\* the pattern script before main
PatternBoot(argName, argWeek) ==
    [ pc        |-> "boot",     \* boot, draw, push, exit0, exit1
      name      |-> ArgOr(argName, "heart"),
      startWeek |-> ParseIntOr(argWeek, DefaultStartWeek),
      clock     |-> 0,          \* the instant it is
      found     |-> FALSE,      \* drawPattern found the pattern
      cell      |-> NoCell,     \* drawPattern: the cell of the loops (week, day)
      i         |-> 0,          \* drawPattern: the index of the intensity loop
      date      |-> <<>>,       \* drawPattern: const date of the cell
      at        |-> 0,          \* the instant date was computed
      commits   |-> <<>>,       \* the commits created, in order
      pushes    |-> 0,          \* calls of git.push
      done      |-> FALSE ]     \* "Done!" was reported

PatternInit ==
    /\ EngineInit({LoadConfig(FALSE, {}, {}, {}, {})})
    /\ backfill = Off
    /\ pattern \in { PatternBoot(n, w) :
                        n \in {{}} \cup {{x} : x \in PatternNames \cup {"unknown"}},
                        w \in {{}, {5}} }
    /\ randomRun = Off
    /\ once = Off
    /\ repository = Off

\* drawPattern: the loops move to the next filled cell from cell p on and
\* compute its date, or end, and then main calls pushCommits
DrawFrom(pt, p) ==
    LET grid == PATTERNS[pt.name]
        q == FirstOnCellFrom(grid, p)
    IN  IF q = NoCell
        THEN [pt EXCEPT !.pc = "push", !.cell = NoCell]
        ELSE [pt EXCEPT !.pc = "draw",
                        !.cell = q,
                        !.i = 0,
                        !.date = generateDate(pt.startWeek + WeekOf(q), DayOf(q), pt.clock),
                        !.at = pt.clock]

\* main up to the first await: drawPattern looks the pattern up; when there
\* is none it logs and returns, and main goes on to pushCommits
PatternMain ==
    /\ pattern.pc = "boot"
    /\ pattern' = IF pattern.name \in PatternNames
                  THEN DrawFrom([pattern EXCEPT !.found = TRUE], 0)
                  ELSE [pattern EXCEPT !.pc = "push"]
    /\ UNCHANGED <<engineVars, once, repository, backfill, randomRun>>

\* drawPattern: await createCommit(date); an error ends main with exit(1)
PatternCommit(ok) ==
    LET made == [pattern EXCEPT
                    !.commits = Append(@, [week |-> WeekOf(pattern.cell),
                                           day |-> DayOf(pattern.cell),
                                           date |-> pattern.date,
                                           at |-> pattern.at]),
                    !.i = @ + 1]
    IN
    /\ pattern.pc = "draw"
    /\ pattern' = IF ~ok THEN [pattern EXCEPT !.pc = "exit1"]
                  ELSE IF RunContinues(made.i) THEN made
                  ELSE DrawFrom(made, made.cell + 1)
    /\ UNCHANGED <<engineVars, once, repository, backfill, randomRun>>

\* pushCommits: await git.push(); then "Done!", or exit(1) on an error
PatternPush(ok) ==
    /\ pattern.pc = "push"
    /\ pattern' = [pattern EXCEPT !.pushes = @ + 1,
                                  !.pc = IF ok THEN "exit0" ELSE "exit1",
                                  !.done = ok]
    /\ UNCHANGED <<engineVars, once, repository, backfill, randomRun>>

\* time passes during the run
PatternTick ==
    /\ pattern.pc \in {"draw", "push"}
    /\ pattern.clock < MaxPatternClock
    /\ pattern' = [pattern EXCEPT !.clock = @ + 1]
    /\ UNCHANGED <<engineVars, once, repository, backfill, randomRun>>

PatternNext ==
    \/ PatternMain
    \/ \E ok \in BOOLEAN : PatternCommit(ok)
    \/ \E ok \in BOOLEAN : PatternPush(ok)
    \/ PatternTick

PatternSpec == PatternInit /\ [][PatternNext]_vars


(***************************************************************************)
(* The random-commits script (src/index.js): generateDate (the same as     *)
(* that of the pattern script), makeRandomCommits, pushCommits, main.      *)
(***************************************************************************)
\* the script as main starts makeRandomCommits
RandomBoot ==
    [ pc      |-> "loop",     \* loop, push, exit0, exit1
      clock   |-> 0,          \* the instant it is
      i       |-> 0,          \* makeRandomCommits: the loop index
      commits |-> <<>>,       \* the commits created, in order
      pushes  |-> 0 ]         \* calls of git.push

RandomInit ==
    /\ EngineInit({LoadConfig(FALSE, {}, {}, {}, {})})
    /\ backfill = Off
    /\ pattern = Off
    /\ randomRun = RandomBoot
    /\ once = Off
    /\ repository = Off

\* makeRandomCommits: a turn of the loop: week and day are drawn,
\* generateDate(week, day) gives the date and createCommit(date) is awaited;
\* an error ends main with exit(1); after the last turn main calls pushCommits
MakeRandomCommit(week, day, ok) ==
    LET made == [randomRun EXCEPT
                    !.commits = Append(@, [week |-> week,
                                           day |-> day,
                                           date |-> generateDate(week, day, randomRun.clock),
                                           at |-> randomRun.clock]),
                    !.i = @ + 1]
    IN
    /\ randomRun.pc = "loop"
    /\ randomRun' = IF ~ok THEN [randomRun EXCEPT !.pc = "exit1"]
                    ELSE IF made.i < MaxRandomCommits THEN made
                    ELSE [made EXCEPT !.pc = "push"]
    /\ UNCHANGED <<engineVars, once, repository, backfill, pattern>>

\* pushCommits: await git.push(); then "Done!", or exit(1) on an error
RandomPush(ok) ==
    /\ randomRun.pc = "push"
    /\ randomRun' = [randomRun EXCEPT !.pushes = @ + 1,
                                      !.pc = IF ok THEN "exit0" ELSE "exit1"]
    /\ UNCHANGED <<engineVars, once, repository, backfill, pattern>>

\* time passes during the run
RandomTick ==
    /\ randomRun.pc \in {"loop", "push"}
    /\ randomRun.clock < MaxRandomClock
    /\ randomRun' = [randomRun EXCEPT !.clock = @ + 1]
    /\ UNCHANGED <<engineVars, once, repository, backfill, pattern>>

RandomNext ==
    \/ \E week \in 0..MaxRandomWeek, day \in 0..(DaysPerWeek - 1), ok \in BOOLEAN :
            MakeRandomCommit(week, day, ok)
    \/ \E ok \in BOOLEAN : RandomPush(ok)
    \/ RandomTick

RandomSpec == RandomInit /\ [][RandomNext]_vars


(***************************************************************************)
(* The control surface (HealthServer) of scheduled mode: the /trigger      *)
(* route.  The process runs with HEALTH_ENABLED=true.                      *)
(***************************************************************************)
Methods == {"POST", "GET"}

\* a handleTrigger that takes every method
AcceptsAny(method) == TRUE

\* handleTrigger: req.method !== "POST" is answered 405
Accepts(method) == method = "POST"

\* handleTrigger: a request that is not a POST is answered 405 and nothing
\* else happens; a POST calls scheduler.runNow() without awaiting it (the
\* call runs executeTask up to its first await) and is answered 202
HandleTrigger(method) ==
    /\ proc = "up"
    /\ http.requests < MaxRequests
    /\ IF Accepts(method)
       THEN /\ ExecuteTask
            /\ http' = [requests |-> http.requests + 1, method |-> method,
                        status |-> 202]
       ELSE /\ http' = [requests |-> http.requests + 1, method |-> method,
                        status |-> 405]
            /\ UNCHANGED <<CONFIG, proc, now, job, isRunning, lastRun, stats,
                           initialized, execs, markerFile, index, commits,
                           triggers, startError>>
            /\ UNCHANGED scriptVars

\* one environment, with and without DRY_RUN
ControlConfigs == { LoadConfig(d, {2}, {}, {1}, {2}) : d \in BOOLEAN }

ControlInit == EngineInit(ControlConfigs) /\ ScriptsIdle

ControlNext ==
    \/ Next
    \/ \E method \in Methods : HandleTrigger(method)

ControlSpec == ControlInit /\ [][ControlNext]_vars


(***************************************************************************)
(* The version-control gateway (GitService) on its own: initialize,        *)
(* ensureInitialized and the operations that call it, called one after the *)
(* other by a client that awaits each call.  The repository is the working *)
(* directory of the process.                                               *)
(***************************************************************************)
Operations == {"add", "commit", "push", "pull", "status", "log"}

\* the git primitives of initialize, in the order it calls them
InitPrimitives == {"checkIsRepo", "init", "addConfig", "getRemotes", "addRemote"}

\* an initialize that adds the remote whatever getRemotes lists
ShouldAddRemoteAlways(hasOrigin, repoUrl) == TRUE

\* initialize: if (!hasOrigin && CONFIG.git.repoUrl)
ShouldAddRemote(hasOrigin, repoUrl) == ~hasOrigin /\ repoUrl

\* ensureInitialized: if (!this.initialized)
NeedsInitialize(flag) == ~flag

\* what the calls leave on disk
Snapshot(r) == [isRepo |-> r.isRepo, identity |-> r.identity, remotes |-> r.remotes]

\* a GitService just constructed, in a directory that is or is not a
\* repository, whose identity is someone else's, with or without a remote of
\* the configured name, with or without GIT_REPO_URL
GatewayBoot(isRepo, hasRemote, repoUrl) ==
    [ pc          |-> "ready",
      isRepo      |-> isRepo,      \* the directory is a repository
      identity    |-> "other",     \* user.name / user.email: other, configured
      remotes     |-> IF hasRemote THEN 1 ELSE 0,  \* remotes named remoteName
      repoUrl     |-> repoUrl,     \* CONFIG.git.repoUrl is not empty
      initialized |-> FALSE,       \* this.initialized
      hadRepo     |-> isRepo,      \* the directory as it was found
      hadRemote   |-> hasRemote,
      calls       |-> 0,           \* calls made on the gateway
      initRuns    |-> 0,           \* runs of initialize
      lazyRuns    |-> 0,           \* those started by ensureInitialized
      created     |-> 0,           \* git init
      applied     |-> 0,           \* addConfig of the name and the email
      addCalls    |-> 0,           \* git remote add
      returned    |-> 0,           \* runs of initialize that returned true
      ops         |-> 0,           \* operations that reached their git command
      lastCall    |-> "none",      \* none, returned, raised
      first       |-> <<>> ]       \* the snapshot after the first run that returned

\* the body of initialize, the primitive failAt failing if it is called;
\* git remote add fails by itself when the remote exists
InitializeBody(r, failAt) ==
    LET raised(x) == [x EXCEPT !.lastCall = "raised"]
        done(x) == [x EXCEPT !.initialized = TRUE,
                             !.returned = @ + 1,
                             !.lastCall = "returned",
                             !.first = IF @ = <<>> THEN <<Snapshot(x)>> ELSE @]
        r0 == [r EXCEPT !.initRuns = @ + 1]
        r1 == IF r0.isRepo THEN r0
              ELSE [r0 EXCEPT !.isRepo = TRUE, !.created = @ + 1]
        r2 == [r1 EXCEPT !.identity = "configured", !.applied = @ + 1]
        hasOrigin == r2.remotes > 0
        r3 == [r2 EXCEPT !.addCalls = @ + 1]
    IN  IF failAt = "checkIsRepo" THEN raised(r0)
        ELSE IF ~r0.isRepo /\ failAt = "init" THEN raised(r0)
        ELSE IF failAt = "addConfig" THEN raised(r1)
        ELSE IF failAt = "getRemotes" THEN raised(r2)
        ELSE IF ~ShouldAddRemote(hasOrigin, r2.repoUrl) THEN done(r2)
        ELSE IF failAt = "addRemote" \/ hasOrigin THEN raised(r3)
        ELSE done([r3 EXCEPT !.remotes = @ + 1])

GatewayInit ==
    /\ EngineInit({LoadConfig(FALSE, {}, {}, {}, {})})
    /\ backfill = Off
    /\ pattern = Off
    /\ randomRun = Off
    /\ once = Off
    /\ repository \in { GatewayBoot(isRepo, hasRemote, repoUrl) :
                            isRepo \in BOOLEAN, hasRemote \in BOOLEAN,
                            repoUrl \in BOOLEAN }

\* a call of gitService.initialize()
Initialize(failAt) ==
    /\ repository.pc = "ready"
    /\ repository.calls < MaxCalls
    /\ repository' = [InitializeBody(repository, failAt) EXCEPT !.calls = @ + 1]
    /\ UNCHANGED <<engineVars, backfill, pattern, randomRun, once>>

\* a call of add, commit, push, pull, status or log: await
\* this.ensureInitialized(), whose error the operation lets through, then
\* the git command of the operation
Operation(op, failAt) ==
    /\ repository.pc = "ready"
    /\ repository.calls < MaxCalls
    /\ LET r == [repository EXCEPT !.calls = @ + 1]
           ensured == IF NeedsInitialize(r.initialized)
                      THEN InitializeBody([r EXCEPT !.lazyRuns = @ + 1], failAt)
                      ELSE [r EXCEPT !.lastCall = "returned"]
       IN  repository' = IF ensured.lastCall = "raised"
                         THEN ensured
                         ELSE [ensured EXCEPT !.ops = @ + 1]
    /\ UNCHANGED <<engineVars, backfill, pattern, randomRun, once>>

GatewayNext ==
    \/ \E failAt \in InitPrimitives \cup {"none"} : Initialize(failAt)
    \/ \E op \in Operations, failAt \in InitPrimitives \cup {"none"} :
            Operation(op, failAt)

GatewaySpec == GatewayInit /\ [][GatewayNext]_vars


(***************************************************************************)
(* Single execution mode (runOnce).  An instant of its clock is the        *)
(* RandDenom-th part of twelve hours, so that the minutes added to a       *)
(* commit time, Math.random() * 60 * 12, are a whole number of instants.   *)
(***************************************************************************)
HalfDay == RandDenom

OnceTicksPerDay == 2 * HalfDay

\* the calendar day of an instant, in the configured timezone
CalendarDay(t) == t \div OnceTicksPerDay

\* today.clone().add(Math.random() * 60 * 12, "minutes") with
\* Math.random() = k/RandDenom
commitTime(today, k) == today + ((k * HalfDay) \div RandDenom)

\* the process at any time of its first day
OnceBoot(clock) ==
    [ pc          |-> "initialize",  \* initialize, pull, today, create, push, exit0, exit1
      clock       |-> clock,         \* the instant it is
      today       |-> 0,             \* createTodayContributions: moment().tz(...)
      commitCount |-> 0,
      i           |-> 0,             \* the loop index
      results     |-> 0,             \* results.length
      dates       |-> <<>> ]         \* the --date of the commits created, in order

OnceInit ==
    /\ EngineInit({ LoadConfig(d, {}, {}, {1}, {2}) : d \in BOOLEAN })
    /\ backfill = Off
    /\ pattern = Off
    /\ randomRun = Off
    /\ repository = Off
    /\ once \in { OnceBoot(clock) : clock \in 0..(OnceTicksPerDay - 1) }

\* runOnce: await gitService.initialize()
OnceInitialize(ok) ==
    /\ once.pc = "initialize"
    /\ once' = [once EXCEPT !.pc = IF ok THEN "pull" ELSE "exit1"]
    /\ UNCHANGED <<engineVars, backfill, pattern, randomRun, repository>>

\* runOnce: await gitService.pull(), which returns at once in dry-run and
\* swallows the errors it can recover from
OncePull(err) ==
    /\ once.pc = "pull"
    /\ once' = [once EXCEPT !.pc =
                    IF CONFIG.dryRun \/ err = NoError \/ IsRecoverablePull(err)
                    THEN "today" ELSE "exit1"]
    /\ UNCHANGED <<engineVars, backfill, pattern, randomRun, repository>>

\* createTodayContributions up to its loop: today and the count
OnceToday(k) ==
    /\ once.pc = "today"
    /\ LET n == getRandomCommitCount(k)
       IN  once' = [once EXCEPT !.today = once.clock,
                                !.commitCount = n,
                                !.i = 0,
                                !.pc = IF n > 0 THEN "create" ELSE "push"]
    /\ UNCHANGED <<engineVars, backfill, pattern, randomRun, repository>>

\* a turn of the loop: commitTime is drawn and createCommit(commitTime)
\* awaited; its error is caught and the loop goes on
OnceCreate(k, ok) ==
    /\ once.pc = "create"
    /\ LET t == commitTime(once.today, k)
           last == once.i + 1 >= once.commitCount
       IN  once' = [once EXCEPT
                        !.dates = IF ok /\ ~CONFIG.dryRun THEN Append(@, t) ELSE @,
                        !.results = IF ok THEN @ + 1 ELSE @,
                        !.i = @ + 1,
                        !.pc = IF last THEN "push" ELSE "create"]
    /\ UNCHANGED <<engineVars, backfill, pattern, randomRun, repository>>

\* runOnce: await gitService.push(); main exits with 0, or 1 on an error
OncePush(ok) ==
    /\ once.pc = "push"
    /\ once' = [once EXCEPT !.pc = IF ok THEN "exit0" ELSE "exit1"]
    /\ UNCHANGED <<engineVars, backfill, pattern, randomRun, repository>>

\* time passes
OnceTick ==
    /\ once.pc \in {"initialize", "pull", "today", "create", "push"}
    /\ once.clock < MaxOnceClock
    /\ once' = [once EXCEPT !.clock = @ + 1]
    /\ UNCHANGED <<engineVars, backfill, pattern, randomRun, repository>>

OnceNext ==
    \/ \E ok \in BOOLEAN : OnceInitialize(ok)
    \/ \E err \in PullErrors \cup {NoError} : OncePull(err)
    \/ \E k \in 0..(RandDenom - 1) : OnceToday(k)
    \/ \E k \in 0..(RandDenom - 1), ok \in BOOLEAN : OnceCreate(k, ok)
    \/ \E ok \in BOOLEAN : OncePush(ok)
    \/ OnceTick

OnceSpec == OnceInit /\ [][OnceNext]_vars


(***************************************************************************)
(* Properties.                                                             *)
(***************************************************************************)
InFlightCount == Cardinality({e \in ExecIds : InFlight(e)})

\* calls of executeTask that were dropped
Dropped == triggers - stats.totalRuns

Occurrences(seq, x) == Cardinality({n \in 1..Len(seq) : seq[n] = x})

RECURSIVE Sum(_)
Sum(seq) == IF seq = <<>> THEN 0 ELSE seq[1] + Sum(Tail(seq))

\* C1: under every interleaving of cron ticks and manual triggers at most one
\* execution of executeTask (pull, runToday, push) is in flight, and
\* isRunning is true exactly while that one execution is in flight.
C1_AtMostOneExecution ==
    /\ InFlightCount <= 1
    /\ isRunning <=> (InFlightCount = 1)

\* a trigger was dropped while an execution was in its push
C1_Witness ==
    /\ Dropped >= 1
    /\ isRunning
    /\ \E e \in ExecIds : execs[e].pc \in {"push", "sleep"}

\* C2: a trigger that arrives while isRunning is true has no effect (no
\* counter, lastRun or flag changes, no activation starts or advances, no
\* file or repository change), and no execution starts except in the step of
\* a trigger that finds isRunning false (a dropped trigger is not replayed).
C2_DroppedTriggerNoEffect ==
    [][ /\ (triggers' # triggers /\ isRunning) =>
              UNCHANGED <<isRunning, lastRun, stats, execs, job,
                          markerFile, index, commits>>
        /\ (\/ stats'.totalRuns # stats.totalRuns
            \/ \E e \in ExecIds : execs'[e].pc = "pull" /\ execs[e].pc # "pull")
              => (triggers' = triggers + 1 /\ ~isRunning) ]_vars

\* an execution ended, a trigger was dropped during it, and nothing runs
C2_Witness ==
    /\ Dropped >= 1
    /\ ~isRunning
    /\ InFlightCount = 0
    /\ stats.totalRuns = 1
    /\ stats.successfulRuns + stats.failedRuns = 1

\* C3: isRunning is never true without an execution in flight (it is not
\* left set when executeTask has returned), a trigger that finds it false is
\* admitted, and while the process is up every admitted execution comes to
\* clear it, whatever pull, the commit creations and push do.
C3_GuaranteedRelease ==
    /\ [](isRunning => InFlightCount >= 1)
    /\ [][(triggers' # triggers /\ ~isRunning) => isRunning']_vars
    /\ (isRunning ~> (~isRunning \/ proc = "exited"))

\* an execution ended with a surfaced error and the next trigger was admitted
C3_Witness ==
    /\ stats.failedRuns = 1
    /\ stats.totalRuns = 2
    /\ isRunning

StepRank(step) ==
    CASE step = "pull" -> 1
      [] step = "createCommit" -> 2
      [] step = "push" -> 3

\* C4: in every execution the steps are pull, then the commit creations,
\* then push: no commit creation starts before pull has returned, a push is
\* attempted only when all commitCount creations have finished, and after a
\* pull that surfaces an error there is no commit creation and no push.
C4_PipelineOrder ==
    \A e \in ExecIds :
        LET r == execs[e]
            n == Len(r.steps)
        IN  /\ \A a, b \in 1..n : a < b => StepRank(r.steps[a]) <= StepRank(r.steps[b])
            /\ Occurrences(r.steps, "pull") <= 1
            /\ Occurrences(r.steps, "createCommit") > 0 =>
                  (r.steps[1] = "pull" /\ r.pullResult # "none")
            /\ (r.pc = "push" \/ Occurrences(r.steps, "push") > 0) =>
                  /\ r.steps[1] = "pull"
                  /\ r.pullResult # "none"
                  /\ r.i = r.commitCount
                  /\ Occurrences(r.steps, "createCommit") = r.commitCount
            /\ (r.pc = "done" /\ r.pullResult = "none") =>
                  (r.steps = <<"pull">> /\ r.pushLog = <<>> /\ r.outcome = "failure")

\* an execution of two commit creations that ended with its push
C4_Witness ==
    \E e \in ExecIds :
        /\ execs[e].pc = "done"
        /\ execs[e].commitCount = 2
        /\ execs[e].steps = <<"pull", "createCommit", "createCommit", "push">>


\* the failures of push in the remote-absent class
RemoteAbsentFailures ==
    { m \in PushErrors :
        m \cap { "does not appear to be a git repository",
                 "repository not found",
                 "Could not read from remote" } # {} }

\* every call of git.push made so far failed, none for an absent remote
AllAttemptsFailed(r) ==
    /\ r.pushLog # <<>>
    /\ \A k \in 1..Len(r.pushLog) : r.pushLog[k] \in PushErrors \ RemoteAbsentFailures

\* C5: when every push attempt fails for a reason outside the remote-absent
\* class, push makes exactly retryAttempts attempts, never more and never
\* fewer, and then surfaces the error of the last attempt.
C5_ExactlyMaxRetriesAttempts ==
    \A e \in ExecIds :
        LET r == execs[e]
        IN  /\ AllAttemptsFailed(r) => Len(r.pushLog) <= CONFIG.retryAttempts
            /\ (r.pc = "done" /\ AllAttemptsFailed(r)) =>
                  /\ Len(r.pushLog) = CONFIG.retryAttempts
                  /\ r.pushResult = "none"
                  /\ r.outcome = "failure"
                  /\ r.error = r.pushLog[Len(r.pushLog)]

\* three attempts failed, the last for another reason than the first
C5_Witness ==
    \E e \in ExecIds :
        /\ execs[e].pc = "done"
        /\ AllAttemptsFailed(execs[e])
        /\ Len(execs[e].pushLog) = 3
        /\ execs[e].pushLog[1] # execs[e].pushLog[3]

\* C6: a push attempt that fails for an absent remote, on whatever attempt,
\* ends the push at once with {pushed: false, local: true}: it is the last
\* attempt, no error is surfaced, and the execution is counted in
\* successfulRuns and not in failedRuns.
C6_RemoteAbsentEndsPush ==
    /\ [](\A e \in ExecIds :
            \A k \in 1..Len(execs[e].pushLog) :
                execs[e].pushLog[k] \in RemoteAbsentFailures =>
                    /\ k = Len(execs[e].pushLog)
                    /\ execs[e].pc = "done"
                    /\ execs[e].pushResult = "local"
                    /\ execs[e].error = NoError
                    /\ execs[e].outcome = "success")
    /\ [][\A e \in ExecIds :
            (/\ Len(execs'[e].pushLog) = Len(execs[e].pushLog) + 1
             /\ execs'[e].pushLog[Len(execs'[e].pushLog)] \in RemoteAbsentFailures)
            => /\ stats'.successfulRuns = stats.successfulRuns + 1
               /\ stats'.failedRuns = stats.failedRuns]_vars

\* the second attempt found the remote absent after the first was rejected
C6_Witness ==
    \E e \in ExecIds :
        /\ execs[e].pushResult = "local"
        /\ Len(execs[e].pushLog) = 2
        /\ execs[e].pushLog[1] = {"rejected"}
        /\ stats.successfulRuns = 1

\* C7: linear backoff: after failed attempt k < retryAttempts push waits
\* retryDelay * k before attempt k + 1, it does not wait after its last
\* attempt, and a push that exhausts its attempts has waited
\* retryDelay * retryAttempts * (retryAttempts - 1) / 2 in total.
C7_LinearBackoff ==
    \A e \in ExecIds :
        LET r == execs[e]
            w == r.waits
        IN  /\ \A k \in 1..Len(w) : w[k] = CONFIG.retryDelay * k
            /\ r.pc = "sleep" =>
                  (Len(w) = Len(r.pushLog) /\ Len(r.pushLog) < CONFIG.retryAttempts)
            /\ r.pc = "push" => (Len(w) = r.attempt - 1 /\ Len(w) = Len(r.pushLog))
            /\ (r.pc = "done" /\ r.pushLog # <<>>) => Len(w) = Len(r.pushLog) - 1
            /\ (r.pc = "done" /\ r.pushLog # <<>> /\ r.error # NoError) =>
                  /\ Len(w) = CONFIG.retryAttempts - 1
                  /\ 2 * Sum(w) = CONFIG.retryDelay * CONFIG.retryAttempts
                                    * (CONFIG.retryAttempts - 1)

\* a push that exhausted three attempts and waited twice, the second time longer
C7_Witness ==
    \E e \in ExecIds :
        /\ execs[e].pc = "done"
        /\ execs[e].error # NoError
        /\ Len(execs[e].pushLog) = 3
        /\ Len(execs[e].waits) = 2
        /\ execs[e].waits[2] = 2 * execs[e].waits[1]

\* the failures of pull in the recoverable set
RecoverablePullFailures ==
    { m \in PullErrors :
        m \cap { "no tracking information",
                 "couldn't find remote ref",
                 "does not appear to be a git repository",
                 "repository not found",
                 "unstaged changes" } # {} }

\* C8: pull calls git pull once and classifies its failure: after a failure
\* in the recoverable set pull returns an empty result, no error is surfaced
\* and the execution goes on with its commit creations; any other failure is
\* surfaced to executeTask, which ends there.
C8_PullClassification ==
    \A e \in ExecIds :
        LET r == execs[e]
            o == r.lastCall.outcome
        IN  /\ r.pulled <= 1
            /\ r.lastCall.op = "pull" =>
                  /\ r.pulled = 1
                  /\ o = NoError => (r.pullResult = "result" /\ r.error = NoError)
                  /\ o \in RecoverablePullFailures =>
                        /\ r.pullResult = "empty"
                        /\ r.error = NoError
                        /\ r.outcome # "failure"
                        /\ r.commitCount > 0 =>
                              (r.pc = "write" /\ r.steps = <<"pull", "createCommit">>)
                  /\ o \in PullErrors \ RecoverablePullFailures =>
                        /\ r.pc = "done"
                        /\ r.pullResult = "none"
                        /\ r.outcome = "failure"
                        /\ r.error = o
                        /\ r.steps = <<"pull">>

\* a pull that failed for want of tracking information, and the first commit
\* creation under way
C8_Witness ==
    \E e \in ExecIds :
        /\ execs[e].lastCall = Call("pull", {"no tracking information"})
        /\ execs[e].pc = "write"

\* C9: in dry-run mode no marker file is written: the content of the data
\* file stays what it was before the run.
C9_DryRunKeepsMarkerFile ==
    CONFIG.dryRun => markerFile = <<0, 0>>

PipelineSteps(n) ==
    <<"pull">> \o [k \in 1..n |-> "createCommit"] \o <<"push">>

\* C10: in dry-run mode no commit object is created and git pull and git push
\* are never called: commit returns the synthetic result, pull an empty
\* result, push {pushed: true} on its first attempt without a retry, and the
\* steps of an execution are pull, commitCount commit creations, push.
C10_DryRunNoExternalEffect ==
    CONFIG.dryRun =>
        /\ commits = <<>>
        /\ \A e \in ExecIds :
            LET r == execs[e]
            IN  /\ r.pulled = 0
                /\ r.pushLog = <<>>
                /\ r.waits = <<>>
                /\ r.attempt <= 1
                /\ r.pullResult \in {"none", "empty"}
                /\ \A k \in 1..Len(r.results) : r.results[k] = "dry-run"
                /\ r.pc = "done" =>
                      /\ r.pushResult = "pushed"
                      /\ r.outcome = "success"
                      /\ r.steps = PipelineSteps(r.commitCount)

C12_FailedCreationKeepsBatch ==
    \A e \in ExecIds :
        LET r == execs[e]
        IN  /\ r.pc \in {"write", "add", "commit"} =>
                  /\ r.i < r.commitCount
                  /\ r.data = <<r.run, r.i + 1>>
                  /\ Occurrences(r.steps, "createCommit") = r.i + 1
                  /\ Len(r.results) + r.caught = r.i
            /\ (r.pullResult # "none" /\ r.pc \in {"push", "sleep", "done"}) =>
                  /\ r.i = r.commitCount
                  /\ Occurrences(r.steps, "createCommit") = r.commitCount
                  /\ Len(r.results) = r.commitCount - r.caught
            /\ r.error \in {NoError} \cup PullErrors \cup PushErrors
            /\ (r.outcome = "failure" /\ r.pullResult # "none") => r.pushLog # <<>>

\* of two creations the first failed and the second gave the one result
C12_Witness ==
    \E e \in ExecIds :
        /\ execs[e].pc = "push"
        /\ execs[e].commitCount = 2
        /\ execs[e].caught = 1
        /\ execs[e].results = <<"created">>
        /\ execs[e].lastCall = Call("commit", NoError)

\* C19: a start that finds the cron expression malformed throws and leaves
\* the Scheduler idle: no job is registered, isRunning, stats, lastRun and
\* the executions are as they were; a start that follows with a valid
\* expression is possible and registers the job.
C19_InvalidCronLeavesIdle ==
    /\ [](startError => job = "null")
    /\ [][(startError' /\ ~startError) =>
            /\ job = "null"
            /\ UNCHANGED <<isRunning, lastRun, stats, execs, triggers>>]_vars
    /\ []((startError /\ proc = "up") => ENABLED Start(TRUE))
    /\ [][(startError /\ ~startError') => (job' = "cron" /\ proc' = "up")]_vars

\* start threw in a Scheduler that had run an execution before
C19_Witness ==
    /\ startError
    /\ proc = "up"
    /\ stats.totalRuns >= 1
    /\ lastRun # {}

\* the errors that pull and push surface to executeTask
SurfacedErrors ==
    (PullErrors \ RecoverablePullFailures) \cup (PushErrors \ RemoteAbsentFailures)

\* C20: an execution whose pull or push surfaces an error adds one to
\* failedRuns and nothing to successfulRuns, leaves the job registered and
\* the process up, and executeTask returns (isRunning is cleared), so that
\* the next trigger is admitted.
C20_FailedRunKeepsSchedulerArmed ==
    /\ [](\A e \in ExecIds :
            (execs[e].pc = "done" /\ execs[e].error # NoError) =>
                (execs[e].outcome = "failure" /\ execs[e].error \in SurfacedErrors))
    /\ [][\A e \in ExecIds :
            (execs'[e].outcome = "failure" /\ execs[e].outcome # "failure") =>
                /\ execs'[e].error \in SurfacedErrors
                /\ execs'[e].pc = "done"
                /\ stats'.failedRuns = stats.failedRuns + 1
                /\ stats'.successfulRuns = stats.successfulRuns
                /\ stats'.totalRuns = stats.totalRuns
                /\ job' = job
                /\ proc' = "up"
                /\ ~isRunning']_vars
    /\ [][(stats.failedRuns >= 1 /\ triggers' # triggers /\ ~isRunning) =>
            (isRunning' /\ stats'.totalRuns = stats.totalRuns + 1)]_vars

\* after a failed run the job is still registered and the next tick runs
C20_Witness ==
    /\ stats.failedRuns = 1
    /\ stats.successfulRuns = 0
    /\ job = "cron"
    /\ \E e \in ExecIds : execs[e].run = 2 /\ execs[e].pc = "pull"

\* the days from start to end inclusive, in ascending order
DaysOfRange(start, end) == [n \in 1..(IF start > end THEN 0 ELSE end - start + 1) |-> start + n - 1]

\* the Saturdays and Sundays from start to end
WeekendDays(start, end) == {d \in start..end : d % 7 \in {0, 6}}

\* C13: for every date range and either value of skipWeekends, when
\* runBackfill returns totalDays + skippedDays is the number of calendar days
\* from startDate to endDate inclusive (0 when startDate is after endDate),
\* and every day of the range was visited once, in ascending order.
C13_BackfillCoversRange ==
    (backfill.pc # "off" /\ backfill.pc # "boot" /\ backfill.config.startDate # {}
        /\ backfill.config.endDate # {} /\ (backfill.returned \/ backfill.pc \in {"day", "commit"})) =>
        LET start == TheDate(backfill.config.startDate)
            end == TheDate(backfill.config.endDate)
            days == DaysOfRange(start, end)
            v == backfill.visited
        IN  /\ Len(v) <= Len(days)
            /\ v = SubSeq(days, 1, Len(v))
            /\ backfill.returned =>
                  /\ v = days
                  /\ backfill.stats.totalDays + backfill.stats.skippedDays = Len(days)

\* a range of four days, two of them skipped, has been gone through
C13_Witness ==
    /\ backfill.pc = "exit0"
    /\ backfill.returned
    /\ backfill.visited = <<5, 6, 7, 8>>
    /\ backfill.stats.skippedDays = 2
    /\ backfill.stats.totalDays = 2

\* C14: with skipWeekends no commit is created for a Saturday or a Sunday and
\* when runBackfill returns skippedDays is the number of Saturdays and
\* Sundays of the range; without skipWeekends skippedDays is 0.
C14_WeekendsSkipped ==
    (backfill.pc \in {"day", "commit", "push", "exit0"} \/ (backfill.pc = "exit1" /\ backfill.returned)) =>
        LET start == TheDate(backfill.config.startDate)
            end == TheDate(backfill.config.endDate)
        IN  IF backfill.config.skipWeekends
            THEN /\ backfill.commitDays \cap WeekendDays(start, end) = {}
                 /\ \A d \in backfill.commitDays : d % 7 \in 1..5
                 /\ backfill.returned =>
                       backfill.stats.skippedDays = Cardinality(WeekendDays(start, end))
            ELSE backfill.stats.skippedDays = 0

\* Friday to Sunday with skipWeekends: commits for the Friday, two days skipped
C14_Witness ==
    /\ backfill.returned
    /\ backfill.config.skipWeekends
    /\ backfill.config.startDate = {5}
    /\ backfill.config.endDate = {7}
    /\ backfill.commitDays = {5}
    /\ backfill.stats.skippedDays = 2

OnCells(grid) ==
    {c \in (0..(Len(grid[1]) - 1)) \X (0..6) : grid[c[2] + 1][c[1] + 1] = 1}

\* the filled cells in column-major order: by week, and by day within a week
ColumnMajor(grid) ==
    LET cells == OnCells(grid)
        before(c) == {x \in cells : x[1] < c[1] \/ (x[1] = c[1] /\ x[2] < c[2])}
    IN  [j \in 1..Cardinality(cells) |->
            CHOOSE c \in cells : Cardinality(before(c)) = j - 1]

ExpectedCells == [name \in PatternNames |-> ColumnMajor(PATTERNS[name])]

\* C16: a pattern run over a grid of k filled cells creates k * n commits (n
\* the intensity, commitsPerCell), in column-major order, as k runs of n
\* commits: commit number j is of filled cell number (j - 1) \div n + 1, all
\* commits of a run carry the one timestamp
\* generateDate(startWeek + week, day) of their cell, and nothing is created
\* for an empty cell.
C16_PatternExpansion ==
    /\ []((pattern.pc # "off" /\ pattern.commits # <<>>) =>
            LET cells == ExpectedCells[pattern.name]
                n == commitsPerCell
                j == Len(pattern.commits)
                c == pattern.commits[j]
                first == pattern.commits[((j - 1) \div n) * n + 1]
            IN  /\ j <= Len(cells) * n
                /\ <<c.week, c.day>> = cells[((j - 1) \div n) + 1]
                /\ c.date = first.date
                /\ c.date = generateDate(pattern.startWeek + c.week, c.day, first.at))
    /\ []((pattern.pc # "off" /\ pattern.found /\ (pattern.pc = "push" \/ pattern.pushes > 0)) =>
            Len(pattern.commits) = Len(ExpectedCells[pattern.name]) * commitsPerCell)
    /\ [][pattern.pc # "off" =>
            \/ pattern'.commits = pattern.commits
            \/ /\ Len(pattern'.commits) = Len(pattern.commits) + 1
               /\ SubSeq(pattern'.commits, 1, Len(pattern.commits)) = pattern.commits]_vars

\* the wave was drawn from week 5 on, the clock having moved during the run
C16_Witness ==
    /\ pattern.pc = "exit0"
    /\ pattern.name = "wave"
    /\ pattern.startWeek = 5
    /\ Len(pattern.commits) = 14 * commitsPerCell
    /\ pattern.commits[2].date = generateDate(5, 3, 0)
    /\ pattern.clock = 1

\* C17: a pattern run with a name that is not a defined pattern fails with an
\* error: no commit is created, no pattern is drawn in its place, and the run
\* neither goes on to its push nor reports success.
C17_UnknownPatternFails ==
    (pattern.pc # "off" /\ pattern.name \notin PatternNames) =>
        /\ pattern.commits = <<>>
        /\ pattern.pc \in {"boot", "exit1"}
        /\ pattern.pushes = 0
        /\ ~pattern.done

\* C18: generateDate depends on (weeksBack, dayOfWeek), on yearsBack and on
\* the current calendar date only: two calls with the same arguments made at
\* two instants of one calendar day, whatever the time of day, return the
\* same result.
C18_DateIgnoresTimeOfDay ==
    randomRun.pc # "off" =>
        \A a, b \in 1..Len(randomRun.commits) :
            LET x == randomRun.commits[a]
                y == randomRun.commits[b]
            IN  (/\ x.week = y.week
                 /\ x.day = y.day
                 /\ x.at \div TicksPerDay = y.at \div TicksPerDay) => x.date = y.date

\* C22: the Scheduler goes Idle -> Armed -> (Executing -> Armed)* -> Idle: an
\* execution starts (isRunning becomes true) only while a job is registered,
\* never in Idle, before start or after stop.
C22_ExecutionsOnlyWhileArmed ==
    [][(isRunning' /\ ~isRunning) => job = "cron"]_vars

\* C23: on a shutdown signal the process exits only when no execution is in
\* flight: an execution running when the signal arrives completes its pull,
\* commit creations and push before the exit.
C23_ShutdownDrains ==
    proc = "exited" => (~isRunning /\ InFlightCount = 0)

\* a createCommit between its file write and the end of its commit
InCreation(e) == execs[e].pc \in {"write", "add", "commit"}

\* <<run, i>> before <<run', i'>>: an earlier run, or earlier in the same run
CreatedBefore(a, b) == a[1] < b[1] \/ (a[1] = b[1] /\ a[2] < b[2])

\* C24: commit creations are sequential with a single writer: under every
\* interleaving of cron ticks and manual triggers at most one createCommit
\* is under way, the content a commit records is the record written by the
\* createCommit that makes it, and the commits are created in the order of
\* the runs and of the loop of each run.
C24_SingleWriter ==
    /\ [](Cardinality({e \in ExecIds : InCreation(e)}) <= 1)
    /\ [](\A e \in ExecIds :
            /\ execs[e].pc = "add" => markerFile = execs[e].data
            /\ execs[e].pc = "commit" => index = execs[e].data)
    /\ [](\A a, b \in 1..Len(commits) : a < b => CreatedBefore(commits[a], commits[b]))
    /\ [][Len(commits') # Len(commits) =>
            /\ Len(commits') = Len(commits) + 1
            /\ SubSeq(commits', 1, Len(commits)) = commits
            /\ \E e \in ExecIds :
                /\ execs[e].pc = "commit"
                /\ commits'[Len(commits')] = execs[e].data]_vars

\* two commits of one run, a trigger having been dropped meanwhile
C24_Witness ==
    /\ commits = << <<1, 1>>, <<1, 2>> >>
    /\ Dropped = 1

\* C28: run accounting: totalRuns = successfulRuns + failedRuns + (1 while
\* an execution runs); an admitted execution adds one to totalRuns when it
\* starts and one to exactly one of successfulRuns and failedRuns when it
\* ends, the counters change in no other step and never decrease, and
\* lastRun is set exactly when totalRuns > 0.
C28_RunAccounting ==
    /\ [](stats.totalRuns = stats.successfulRuns + stats.failedRuns
                              + (IF isRunning THEN 1 ELSE 0))
    /\ [](lastRun # {} <=> stats.totalRuns > 0)
    /\ [][/\ stats'.totalRuns >= stats.totalRuns
          /\ stats'.successfulRuns >= stats.successfulRuns
          /\ stats'.failedRuns >= stats.failedRuns]_vars
    /\ [][(isRunning' /\ ~isRunning) <=>
            (/\ stats'.totalRuns = stats.totalRuns + 1
             /\ stats'.successfulRuns = stats.successfulRuns
             /\ stats'.failedRuns = stats.failedRuns)]_vars
    /\ [][(~isRunning' /\ isRunning) <=>
            (/\ stats'.totalRuns = stats.totalRuns
             /\ stats'.successfulRuns + stats'.failedRuns
                  = stats.successfulRuns + stats.failedRuns + 1)]_vars
    /\ [][stats' # stats => isRunning' # isRunning]_vars

\* two executions have run, one counted as successful and one as failed
C28_Witness ==
    /\ stats = [totalRuns |-> 2, successfulRuns |-> 1, failedRuns |-> 1]
    /\ ~isRunning
    /\ lastRun # {}

\* C29: for every retryAttempts the loader can produce, negative ones
\* included, a push outside dry-run makes at least one call of git push and
\* ends by returning the result of an attempt (success or remote absent) or
\* by raising an error: it never returns without an attempt.
C29_PushAlwaysAttempts ==
    \A e \in ExecIds :
        LET r == execs[e]
        IN  (~CONFIG.dryRun /\ r.pc = "done" /\ r.pullResult # "none") =>
                /\ Len(r.pushLog) >= 1
                /\ \/ r.pushResult \in {"result", "local"}
                   \/ (r.pushResult = "none" /\ r.error # NoError)

\* C30: an execution is counted in successfulRuns if and only if neither
\* pull nor push surfaced an error, whatever the commit creations did: an
\* execution all of whose creations failed still calls push and is counted
\* as successful when push returns.
C30_SuccessIgnoresCommitFailures ==
    /\ [](\A e \in ExecIds :
            LET r == execs[e]
            IN  /\ r.pc = "done" =>
                      /\ r.outcome \in {"success", "failure"}
                      /\ r.outcome = "success" <=> r.error = NoError
                      /\ r.error \in {NoError} \cup SurfacedErrors
                      /\ r.outcome = "success" => r.pushResult # "none"
                /\ (r.pc = "done" /\ r.pullResult # "none") =>
                      (r.pushResult # "none" \/ r.error \in PushErrors))
    /\ [][\A e \in ExecIds :
            (execs'[e].outcome = "success" /\ execs[e].outcome # "success") <=>
                (/\ execs[e].pc = "push"
                 /\ stats'.successfulRuns = stats.successfulRuns + 1
                 /\ stats'.failedRuns = stats.failedRuns)]_vars

\* both creations of an execution failed, push was made and the run counted
C30_Witness ==
    \E e \in ExecIds :
        /\ execs[e].pc = "done"
        /\ execs[e].commitCount = 2
        /\ execs[e].caught = 2
        /\ execs[e].results = <<>>
        /\ execs[e].pushLog = <<NoError>>
        /\ execs[e].outcome = "success"
        /\ stats.successfulRuns = 1

\* C27: the trigger of the control surface does not block: a POST invokes
\* runNow and is answered 202 in the step that starts the execution (or
\* drops the trigger), before any outcome of it exists and whatever the
\* outcome will be; a request that is not a POST is answered 405 and runNow
\* is not invoked.
C27_TriggerNonBlocking ==
    /\ [](http.status \in {0, 202, 405})
    /\ [](http.status = 202 <=> http.method = "POST")
    /\ [](http.status = 405 <=> http.method \in Methods \ {"POST"})
    /\ [][http' # http =>
            /\ http'.requests = http.requests + 1
            /\ IF http'.method = "POST"
               THEN /\ http'.status = 202
                    /\ triggers' = triggers + 1
                    /\ stats'.successfulRuns = stats.successfulRuns
                    /\ stats'.failedRuns = stats.failedRuns
                    /\ IF isRunning
                       THEN UNCHANGED <<isRunning, lastRun, stats, execs>>
                       ELSE /\ isRunning'
                            /\ stats'.totalRuns = stats.totalRuns + 1
                            /\ \E e \in ExecIds :
                                /\ ~InFlight(e)
                                /\ execs'[e].pc = "pull"
                                /\ execs'[e].outcome = "none"
               ELSE /\ http'.status = 405
                    /\ UNCHANGED <<triggers, isRunning, lastRun, stats, execs,
                                   markerFile, index, commits>>]_vars

\* a second POST is accepted after the execution of the first one failed,
\* and its own execution is still running when it is answered
C27_Witness ==
    /\ http = [requests |-> 2, method |-> "POST", status |-> 202]
    /\ stats.failedRuns = 1
    /\ isRunning

\* C21: on a gateway instance real initialization (repository check and
\* creation, identity configuration, remote registration) is performed at
\* most once across any sequence of add, commit, push, pull, status and log
\* calls, and every operation after the first finds the gateway
\* Initialized.
C21_InitializedAtMostOnce ==
    repository.pc = "ready" => repository.lazyRuns <= 1

\* C25: initialize is idempotent: any number of calls leave the repository
\* as the first call that returned left it; the repository is created only
\* when none exists, the remote is added only when a URL is configured and
\* no remote of that name is present, never twice, and the name and email
\* are applied again by every call that returns.
C25_InitializeIdempotent ==
    /\ [](repository.pc = "ready" =>
            /\ repository.first # <<>> => Snapshot(repository) = repository.first[1]
            /\ repository.created <= 1
            /\ repository.created = 1 => ~repository.hadRepo
            /\ repository.remotes <= 1
            /\ repository.applied >= repository.returned
            /\ repository.returned >= 1 =>
                    /\ repository.isRepo
                    /\ repository.identity = "configured"
                    /\ repository.remotes = 1 <=>
                            (repository.hadRemote \/ repository.repoUrl))
    /\ [][repository.pc = "ready" =>
            /\ repository'.created > repository.created => ~repository.isRepo
            /\ repository'.addCalls > repository.addCalls =>
                    (repository.remotes = 0 /\ repository.repoUrl)
            /\ repository'.returned > repository.returned =>
                    /\ repository'.applied = repository.applied + 1
                    /\ repository'.identity = "configured"]_vars

\* three calls of initialize returned; the first created the repository and
\* added the remote
C25_Witness ==
    /\ repository.pc = "ready"
    /\ repository.returned = 3
    /\ repository.lazyRuns = 0
    /\ repository.created = 1
    /\ repository.addCalls = 1
    /\ repository.remotes = 1
    /\ repository.applied = 3

\* C26: every commit created by runToday is a commit for today: its
\* authored date is on the calendar day, in the configured timezone, of the
\* moment runToday was invoked, at whatever time of day the run starts.
C26_CommitsDatedToday ==
    once.pc \in {"create", "push", "exit0", "exit1"} =>
        \A n \in 1..Len(once.dates) :
            CalendarDay(once.dates[n]) = CalendarDay(once.today)

\* C31: stop() called while an execution is in flight deregisters the
\* trigger and does not cancel the execution: the status running = false
\* with executing = true is reached, the execution goes on through its pull,
\* commit creations and push to its end while the process is up, adds one
\* to successfulRuns or failedRuns and clears executing; no execution is
\* started by the cron job after stop.
C31_StopLeavesExecution ==
    /\ [][(job # "null" /\ job' = "null") =>
            UNCHANGED <<isRunning, execs, stats, lastRun, triggers,
                        markerFile, index, commits>>]_vars
    /\ [](~getStatus.running => ~ENABLED CronTick)
    /\ [][\A e \in ExecIds :
            (InFlight(e) /\ execs'[e].pc = "done") =>
                /\ ~isRunning'
                /\ stats'.successfulRuns + stats'.failedRuns
                       = stats.successfulRuns + stats.failedRuns + 1
                /\ execs'[e].outcome \in {"success", "failure"}]_vars
    /\ [](isRunning <=> InFlightCount = 1)
    /\ (~getStatus.running /\ getStatus.isExecuting)
            ~> (InFlightCount = 0 \/ proc = "exited")

\* the scheduler is stopped and the execution it had admitted is at its
\* push, its commits made
C31_Witness ==
    /\ proc = "up"
    /\ ~getStatus.running
    /\ getStatus.isExecuting
    /\ \E e \in ExecIds :
        /\ execs[e].pc = "push"
        /\ Len(execs[e].results) = 2
    /\ Len(commits) = 2

====
